---- MODULE Spec2Model ----
(***************************************************************************)
(* Storage providers (Local, S3, Aliyun OSS, Tencent COS) and the driver   *)
(* registry of nuecms/storage-provider.                                    *)
(*                                                                         *)
(* A string is a sequence of tokens.  The token "/" is the path separator; *)
(* every other token is a non-empty piece of text without a separator      *)
(* ("media", "a.txt", "..").  No token used below is a substring of        *)
(* another one, so token-wise search and replacement agree with the        *)
(* character-wise ones of the source.  <<>> is the empty string, which     *)
(* JavaScript treats as falsy.                                             *)
(***************************************************************************)
EXTENDS Integers, Sequences, FiniteSets, TLC

\* The number of distinct buffers a caller may upload (buffers are 1..NumBuffers).
NumBuffers == 2

\* The number of distinct provider instances handed to the registry.
NumInstances == 2

SL == "/"

Buffers == 1..NumBuffers

(***************************************************************************)
(* String helpers                                                          *)
(***************************************************************************)

\* String.prototype.startsWith
StartsWith(s, p) ==
  /\ Len(p) <= Len(s)
  /\ SubSeq(s, 1, Len(p)) = p

\* The positions at which p occurs in s.
Occurrences(s, p) ==
  {i \in 1..(Len(s) - Len(p) + 1) : SubSeq(s, i, i + Len(p) - 1) = p}

\* String.prototype.replace(p, '') with a string pattern: the first
\* occurrence of p is removed; the empty pattern matches at the start.
ReplaceFirst(s, p) ==
  IF p = <<>> \/ Occurrences(s, p) = {} THEN s
  ELSE LET i == CHOOSE k \in Occurrences(s, p) : \A j \in Occurrences(s, p) : k <= j
       IN SubSeq(s, 1, i - 1) \o SubSeq(s, i + Len(p), Len(s))

\* replace(/\/+/g, '/'): every run of separators becomes one separator.
RECURSIVE CollapseSlashes(_)
CollapseSlashes(s) ==
  IF Len(s) <= 1 THEN s
  ELSE IF s[1] = SL /\ s[2] = SL THEN CollapseSlashes(Tail(s))
  ELSE <<s[1]>> \o CollapseSlashes(Tail(s))

\* replace(/^\//, ''): one leading separator is removed.
StripLeadingSlash(s) ==
  IF s # <<>> /\ s[1] = SL THEN Tail(s) ELSE s

\* replace(/\/+/g, '/').replace(/^\//, ''): repeated separators collapsed
\* and no leading separator.
Normalize(s) == StripLeadingSlash(CollapseSlashes(s))

\* replace(/\/+$/, ''): all trailing separators are removed.
RECURSIVE StripTrailingSlashes(_)
StripTrailingSlashes(s) ==
  IF s # <<>> /\ s[Len(s)] = SL THEN StripTrailingSlashes(SubSeq(s, 1, Len(s) - 1))
  ELSE s

\* s.split('/'): the sequence of segments between separators.
RECURSIVE SplitSlash(_)
SplitSlash(s) ==
  IF \A i \in 1..Len(s) : s[i] # SL THEN <<s>>
  ELSE LET i == CHOOSE k \in 1..Len(s) : s[k] = SL /\ \A j \in 1..(k - 1) : s[j] # SL
       IN <<SubSeq(s, 1, i - 1)>> \o SplitSlash(SubSeq(s, i + 1, Len(s)))

\* segments.join('/')
RECURSIVE JoinSlash(_)
JoinSlash(segs) ==
  IF segs = <<>> THEN <<>>
  ELSE IF Len(segs) = 1 THEN segs[1]
  ELSE segs[1] \o <<SL>> \o JoinSlash(Tail(segs))

\* Node's normalizeString: empty and "." segments are dropped, ".." removes
\* the segment before it; above the root it is kept when allowAboveRoot.
RECURSIVE NormalizeSegments(_, _, _)
NormalizeSegments(segs, acc, allowAboveRoot) ==
  IF segs = <<>> THEN acc
  ELSE LET seg == Head(segs)
           rest == Tail(segs)
       IN IF seg = <<>> \/ seg = <<".">> THEN NormalizeSegments(rest, acc, allowAboveRoot)
          ELSE IF seg = <<"..">> THEN
            IF acc # <<>> /\ acc[Len(acc)] # <<"..">>
              THEN NormalizeSegments(rest, SubSeq(acc, 1, Len(acc) - 1), allowAboveRoot)
            ELSE IF allowAboveRoot
              THEN NormalizeSegments(rest, Append(acc, seg), allowAboveRoot)
            ELSE NormalizeSegments(rest, acc, allowAboveRoot)
          ELSE NormalizeSegments(rest, Append(acc, seg), allowAboveRoot)

\* path.posix.normalize
PosixNormalize(p) ==
  IF p = <<>> THEN <<".">>
  ELSE LET isAbsolute == p[1] = SL
           trailingSeparator == p[Len(p)] = SL
           body == JoinSlash(NormalizeSegments(SplitSlash(p), <<>>, ~isAbsolute))
       IN IF body = <<>>
            THEN IF isAbsolute THEN <<SL>>
                 ELSE IF trailingSeparator THEN <<".", SL>> ELSE <<".">>
          ELSE (IF isAbsolute THEN <<SL>> ELSE <<>>) \o body
               \o (IF trailingSeparator THEN <<SL>> ELSE <<>>)

\* The non-empty arguments of path.join, joined with separators.
RECURSIVE JoinNonEmpty(_)
JoinNonEmpty(args) ==
  IF args = <<>> THEN <<>>
  ELSE LET rest == JoinNonEmpty(Tail(args))
       IN IF Head(args) = <<>> THEN rest
          ELSE IF rest = <<>> THEN Head(args)
          ELSE Head(args) \o <<SL>> \o rest

\* path.posix.join(...args); path.join on a POSIX host.
PathJoin(args) ==
  IF JoinNonEmpty(args) = <<>> THEN <<".">> ELSE PosixNormalize(JoinNonEmpty(args))

(***************************************************************************)
(* Provider configuration and call inputs                                  *)
(***************************************************************************)

Adapters == {"local", "s3", "aliyun-oss", "tencent-cos"}

CloudAdapters == {"s3", "aliyun-oss", "tencent-cos"}

Bucket == "bucket"

Region == "region"

CdnDomain == <<"https://cdn.example.com">>

Endpoint == <<"https://", "storage.example.net">>

LocalBasePath == <<SL, "data">>

LocalBaseUrl == <<"http://localhost">>

\* expiresIn when getUrl of S3Provider is given none: 60 * 5.
S3DefaultExpiresIn == 300

\* expiresIn when getSignedUrl of AliyunOSSProvider is given none.
AliyunDefaultExpiresIn == 3600

\* expiresIn when getSignedUrl of QCloudCOSProvider is given none.
QCloudDefaultExpiresIn == 3600

\* The options a provider is constructed with.  A field an adapter does not
\* have holds the empty string or FALSE; secure is TRUE unless set to false.
S3Configs ==
  [adapter : {"s3"}, prefix : {<<>>, <<"media">>}, cdnDomain : {<<>>, CdnDomain},
   endpoint : {<<>>, Endpoint}, pathStyle : BOOLEAN, secure : {TRUE},
   basePath : {<<>>}, baseUrl : {<<>>}]

AliyunConfigs ==
  [adapter : {"aliyun-oss"}, prefix : {<<>>, <<"media">>}, cdnDomain : {<<>>, CdnDomain},
   endpoint : {<<>>, <<"oss.example.net">>}, pathStyle : {FALSE}, secure : BOOLEAN,
   basePath : {<<>>}, baseUrl : {<<>>}]

QCloudConfigs ==
  [adapter : {"tencent-cos"}, prefix : {<<>>, <<"media">>}, cdnDomain : {<<>>, CdnDomain},
   endpoint : {<<>>}, pathStyle : {FALSE}, secure : {TRUE},
   basePath : {<<>>}, baseUrl : {<<>>}]

LocalConfigs ==
  [adapter : {"local"}, prefix : {<<>>}, cdnDomain : {<<>>},
   endpoint : {<<>>}, pathStyle : {FALSE}, secure : {TRUE},
   basePath : {LocalBasePath}, baseUrl : {LocalBaseUrl}]

Configs == S3Configs \cup AliyunConfigs \cup QCloudConfigs \cup LocalConfigs

\* The configurations that differ in what they store: the adapter and its
\* prefix, every URL option left at its default.
StoreConfigs ==
  {c \in Configs : c.cdnDomain = <<>> /\ c.endpoint = <<>> /\ ~c.pathStyle /\ c.secure}

FileNames == {<<"a.txt">>, <<"b.txt">>}

\* The inputs of the key and URL derivations: the directory "2024/05" as it
\* is, and written with redundant separators.
InputFileNames == {<<"a.png">>}

InputDirectories ==
  {<<>>, <<"2024", SL, "05">>, <<"2024", SL, "05", SL>>, <<SL, "2024", SL, SL, "05">>}

RootDir == <<>>

SubDir == <<"sub">>

Directories == {RootDir, SubDir}

\* context.expiresIn; 0 stands for a context without expiresIn.
ExpiresInputs == {0, 600}

Contexts == [directory : Directories, expiresIn : {0}]

\* What a backend can answer to the deletion of a key it does not hold:
\* success (204), or a not-found error.
DeleteMissingAnswers == {"NoContent", "NoSuchKey"}

(***************************************************************************)
(* The backend: a bucket or a file tree, a function from keys to buffers   *)
(***************************************************************************)

SdkPut(store, key, body) ==
  [k \in DOMAIN store \cup {key} |-> IF k = key THEN body ELSE store[k]]

SdkRemove(store, key) ==
  [k \in DOMAIN store \ {key} |-> store[k]]

\* A listing request: the keys that start with prefix; with a delimiter,
\* keys whose remainder holds the delimiter are rolled up into common
\* prefixes and are not among the returned objects.
SdkList(store, prefix, delimited) ==
  {k \in DOMAIN store :
     /\ StartsWith(k, prefix)
     /\ delimited => \A i \in (Len(prefix) + 1)..Len(k) : k[i] # SL}

\* The URL the SDK signs for a key.
SdkSign(url, expires) ==
  url \o <<"?Expires=", ToString(expires), "&Signature">>

\* The result of a call: the promise's outcome and the fields of the value
\* it resolved to.  key is the key of the backend request the call made;
\* file is the buffer a download resolved to, 0 when there is none.
BaseRes ==
  [outcome |-> "ok", error |-> "", key |-> <<>>, file |-> 0, names |-> {},
   url |-> <<>>, path |-> <<>>, provider |-> "", success |-> "none",
   message |-> <<>>, signed |-> FALSE, expires |-> 0, request |-> <<>>]

Rejected(err, key) ==
  [BaseRes EXCEPT !.outcome = "rejected", !.error = err, !.key = key]

(***************************************************************************)
(* AliyunOSSProvider                                                       *)
(***************************************************************************)

AliyunGetObjectKey(c, fileName, directory) ==
  LET prefix == c.prefix
      sep == IF prefix # <<>> THEN <<SL>> ELSE <<>>
  IN IF directory # <<>>
       THEN prefix \o sep \o directory \o <<SL>> \o fileName
     ELSE prefix \o sep \o fileName

AliyunGetObjectUrl(c, objectKey) ==
  IF c.cdnDomain # <<>> THEN c.cdnDomain \o <<SL>> \o objectKey
  ELSE LET protocol == IF c.secure THEN "https" ELSE "http"
           endpoint == IF c.endpoint # <<>> THEN c.endpoint
                       ELSE <<Region, ".aliyuncs.com">>
       IN <<protocol, "://", Bucket, ".">> \o endpoint \o <<SL>> \o objectKey

AliyunUpload(c, store, file, fileName, ctx) ==
  LET objectKey == AliyunGetObjectKey(c, fileName, ctx.directory)
  IN [store |-> SdkPut(store, objectKey, file),
      res |-> [BaseRes EXCEPT !.key = objectKey, !.url = AliyunGetObjectUrl(c, objectKey),
                              !.path = objectKey, !.provider = "aliyun-oss"]]

AliyunDownload(c, store, fileName, ctx) ==
  LET objectKey == AliyunGetObjectKey(c, fileName, ctx.directory)
  IN [store |-> store,
      res |-> IF objectKey \in DOMAIN store
                THEN [BaseRes EXCEPT !.key = objectKey, !.file = store[objectKey]]
              ELSE Rejected("NoSuchKey", objectKey)]

AliyunDelete(c, store, fileName, ctx, answer) ==
  LET objectKey == AliyunGetObjectKey(c, fileName, ctx.directory)
  IN IF objectKey \notin DOMAIN store /\ answer = "NoSuchKey"
       THEN [store |-> store, res |-> Rejected("NoSuchKey", objectKey)]
     ELSE [store |-> SdkRemove(store, objectKey),
           res |-> [BaseRes EXCEPT !.key = objectKey, !.success = "true"]]

AliyunList(c, store, ctx) ==
  LET prefix == IF ctx.directory # <<>> THEN AliyunGetObjectKey(c, <<>>, ctx.directory)
                ELSE c.prefix
  IN [store |-> store,
      res |-> [BaseRes EXCEPT !.key = prefix,
                 !.names = {ReplaceFirst(k, prefix) : k \in SdkList(store, prefix, TRUE)}]]

AliyunGetUrl(c, store, fileName, ctx) ==
  LET objectKey == AliyunGetObjectKey(c, fileName, ctx.directory)
  IN [store |-> store,
      res |-> [BaseRes EXCEPT !.key = objectKey, !.url = AliyunGetObjectUrl(c, objectKey)]]

\* getSignedUrl(fileName, expiresIn = 3600); expiresIn 0 stands for undefined.
AliyunGetSignedUrl(c, store, fileName, expiresIn) ==
  LET objectKey == AliyunGetObjectKey(c, fileName, <<>>)
      expires == IF expiresIn = 0 THEN AliyunDefaultExpiresIn ELSE expiresIn
  IN [store |-> store,
      res |-> [BaseRes EXCEPT !.key = objectKey, !.signed = TRUE, !.expires = expires,
                 !.url = SdkSign(<<"https://", Bucket, ".">> \o <<Region, ".aliyuncs.com">>
                                   \o <<SL>> \o objectKey, expires)]]

(***************************************************************************)
(* QCloudCOSProvider                                                       *)
(***************************************************************************)

QCloudGetObjectKey(c, fileName, directory) ==
  LET prefix == c.prefix
      sep == IF prefix # <<>> THEN <<SL>> ELSE <<>>
  IN IF directory # <<>>
       THEN prefix \o sep \o directory \o <<SL>> \o fileName
     ELSE prefix \o sep \o fileName

\* options.Domain is the cdnDomain field of the configuration.
QCloudGetObjectUrl(c, objectKey) ==
  IF c.cdnDomain # <<>> THEN c.cdnDomain \o <<SL>> \o objectKey
  ELSE <<"https://", Bucket, ".cos.", Region, ".myqcloud.com", SL>> \o objectKey

\* putObject answers statusCode 200 when the object is stored.
QCloudUpload(c, store, file, fileName, ctx) ==
  LET objectKey == QCloudGetObjectKey(c, fileName, ctx.directory)
  IN [store |-> SdkPut(store, objectKey, file),
      res |-> [BaseRes EXCEPT !.key = objectKey, !.url = QCloudGetObjectUrl(c, objectKey),
                              !.path = objectKey, !.provider = "tencent-cos"]]

QCloudDownload(c, store, fileName, ctx) ==
  LET objectKey == QCloudGetObjectKey(c, fileName, ctx.directory)
  IN [store |-> store,
      res |-> IF objectKey \in DOMAIN store
                THEN [BaseRes EXCEPT !.key = objectKey, !.file = store[objectKey]]
              ELSE Rejected("NoSuchKey", objectKey)]

\* deleteObject answers statusCode 204; success is statusCode 204 or 200.
QCloudDelete(c, store, fileName, ctx, answer) ==
  LET objectKey == QCloudGetObjectKey(c, fileName, ctx.directory)
  IN IF objectKey \notin DOMAIN store /\ answer = "NoSuchKey"
       THEN [store |-> store, res |-> Rejected("NoSuchKey", objectKey)]
     ELSE [store |-> SdkRemove(store, objectKey),
           res |-> [BaseRes EXCEPT !.key = objectKey, !.success = "true"]]

QCloudList(c, store, ctx) ==
  LET prefix == IF ctx.directory # <<>> THEN QCloudGetObjectKey(c, <<>>, ctx.directory)
                ELSE c.prefix
  IN [store |-> store,
      res |-> [BaseRes EXCEPT !.key = prefix,
                 !.names = {ReplaceFirst(k, prefix) : k \in SdkList(store, prefix, TRUE)}]]

QCloudGetUrl(c, store, fileName, ctx) ==
  LET objectKey == QCloudGetObjectKey(c, fileName, ctx.directory)
  IN [store |-> store,
      res |-> [BaseRes EXCEPT !.key = objectKey, !.url = QCloudGetObjectUrl(c, objectKey)]]

\* getSignedUrl(fileName, expiresIn = 3600); expiresIn 0 stands for undefined.
QCloudGetSignedUrl(c, store, fileName, expiresIn) ==
  LET objectKey == QCloudGetObjectKey(c, fileName, <<>>)
      expires == IF expiresIn = 0 THEN QCloudDefaultExpiresIn ELSE expiresIn
  IN [store |-> store,
      res |-> [BaseRes EXCEPT !.key = objectKey, !.signed = TRUE, !.expires = expires,
                 !.url = SdkSign(<<"https://", Bucket, ".cos.", Region, ".myqcloud.com", SL>>
                                   \o objectKey, expires)]]

(***************************************************************************)
(* S3Provider                                                              *)
(***************************************************************************)

\* cleanFilePath of upload: the key the object is written under.
S3CleanFilePath(c, fileName, directory) ==
  LET filePath == IF directory # <<>> THEN PathJoin(<<c.prefix, directory, fileName>>)
                  ELSE PathJoin(<<c.prefix, fileName>>)
  IN Normalize(filePath)

\* url of the upload result.
S3UploadUrl(c, cleanFilePath) ==
  IF c.cdnDomain # <<>> THEN StripTrailingSlashes(c.cdnDomain) \o <<SL>> \o cleanFilePath
  ELSE IF c.endpoint # <<>> THEN
    LET endpointUrl == StripTrailingSlashes(c.endpoint)
    IN IF c.pathStyle THEN endpointUrl \o <<SL>> \o cleanFilePath
       ELSE endpointUrl \o <<SL, Bucket, SL>> \o cleanFilePath
  ELSE <<"https://", Bucket, ".s3.", Region, ".amazonaws.com", SL>> \o cleanFilePath

\* The address the SDK's presigner gives an object of the client's bucket.
S3SdkObjectUrl(c, key) ==
  IF c.endpoint # <<>> THEN
    IF c.pathStyle THEN c.endpoint \o <<SL, Bucket, SL>> \o key
    ELSE <<c.endpoint[1], Bucket, ".">> \o Tail(c.endpoint) \o <<SL>> \o key
  ELSE <<"https://", Bucket, ".s3.", Region, ".amazonaws.com", SL>> \o key

\* The fields of a command input that the adapter derives itself.
NativeFields == {"Bucket", "Key", "Body", "ContentType"}

\* {...derived, ...context}: a field of the context replaces the derived
\* field of the same name.  Of the context, the native fields are kept.
S3Command(derived, ctx) ==
  [f \in DOMAIN derived \cup (DOMAIN ctx \cap NativeFields) |->
     IF f \in DOMAIN ctx THEN ctx[f] ELSE derived[f]]

\* getContentType(fileName): by the extension of the name.
S3GetContentType(fileName) ==
  LET base == IF fileName = <<>> THEN "" ELSE fileName[Len(fileName)]
  IN IF base \in {"a.png"} THEN "image/png"
     ELSE IF base \in {"a.txt", "b.txt"} THEN "text/plain"
     ELSE "application/octet-stream"

\* Another bucket of the same account.
OtherBucket == "other-bucket"

\* The store holds the objects of the configured bucket under their keys,
\* and the objects of another bucket under the bucket's name and their key.
BucketKey(bucket, key) == IF bucket = Bucket THEN key ELSE <<bucket, ":">> \o key

\* The objects of one bucket, by key.
BucketObjects(store, bucket) ==
  LET foreign(k) == Len(k) >= 2 /\ k[2] = ":"
      keys == IF bucket = Bucket THEN {k \in DOMAIN store : ~foreign(k)}
              ELSE {SubSeq(k, 3, Len(k)) :
                      k \in {j \in DOMAIN store : foreign(j) /\ j[1] = bucket}}
  IN [k \in keys |-> store[BucketKey(bucket, k)]]

\* The upload result holds url and path only.
S3Upload(c, store, file, fileName, ctx) ==
  LET cleanFilePath == S3CleanFilePath(c, fileName, ctx.directory)
      command == S3Command([Bucket |-> Bucket, Key |-> cleanFilePath, Body |-> file,
                            ContentType |-> S3GetContentType(fileName)], ctx)
  IN [store |-> SdkPut(store, BucketKey(command.Bucket, command.Key), command.Body),
      res |-> [BaseRes EXCEPT !.key = command.Key, !.url = S3UploadUrl(c, cleanFilePath),
                              !.path = cleanFilePath, !.request = command]]

\* download that sends the derived fields only.
S3DownloadNoSpread(c, store, fileName, ctx) ==
  [store |-> store,
   res |-> IF fileName \in DOMAIN BucketObjects(store, Bucket)
             THEN [BaseRes EXCEPT !.key = fileName, !.file = store[fileName],
                                  !.request = [Bucket |-> Bucket, Key |-> fileName]]
           ELSE [Rejected("NoSuchKey", fileName)
                   EXCEPT !.request = [Bucket |-> Bucket, Key |-> fileName]]]

\* GetObjectCommand({Bucket, Key: fileName, ...context})
S3Download(c, store, fileName, ctx) ==
  LET command == S3Command([Bucket |-> Bucket, Key |-> fileName], ctx)
      bucket == BucketObjects(store, command.Bucket)
  IN [store |-> store,
      res |-> IF command.Key \in DOMAIN bucket
                THEN [BaseRes EXCEPT !.key = command.Key, !.file = bucket[command.Key],
                                     !.request = command]
              ELSE [Rejected("NoSuchKey", command.Key) EXCEPT !.request = command]]

\* DeleteObjectCommand({Bucket, Key: fileName, ...context})
S3Delete(c, store, fileName, ctx, answer) ==
  LET command == S3Command([Bucket |-> Bucket, Key |-> fileName], ctx)
      key == BucketKey(command.Bucket, command.Key)
  IN IF key \notin DOMAIN store /\ answer = "NoSuchKey"
       THEN [store |-> store,
             res |-> [Rejected("NoSuchKey", command.Key) EXCEPT !.request = command]]
     ELSE [store |-> SdkRemove(store, key),
           res |-> [BaseRes EXCEPT !.key = command.Key, !.request = command]]

\* ListObjectsV2Command({Bucket, ...context}): no Prefix and no Delimiter.
S3List(c, store, ctx) ==
  LET command == S3Command([Bucket |-> Bucket], ctx)
  IN [store |-> store,
      res |-> [BaseRes EXCEPT
                 !.names = SdkList(BucketObjects(store, command.Bucket), <<>>, FALSE),
                 !.request = command]]

\* getUrl signs GetObjectCommand({Bucket, Key: fileName, ...context}).
S3GetUrl(c, store, fileName, ctx) ==
  LET expiresIn == IF ctx.expiresIn # 0 THEN ctx.expiresIn ELSE S3DefaultExpiresIn
  IN [store |-> store,
      res |-> [BaseRes EXCEPT !.key = fileName, !.signed = TRUE, !.expires = expiresIn,
                 !.url = SdkSign(S3SdkObjectUrl(c, fileName), expiresIn)]]

(***************************************************************************)
(* LocalStorageProvider                                                    *)
(***************************************************************************)

\* readdir(dirPath): the entries of a directory, each with what stat says
\* of it.  A directory without files is an entry that list filters out
\* too, and a directory that was never made lists as empty (ENOENT).
LocalReadDir(store, dirPath) ==
  LET dir == StripTrailingSlashes(dirPath) \o <<SL>>
      below == {k \in DOMAIN store : StartsWith(k, dir)}
      rel(k) == SplitSlash(SubSeq(k, Len(dir) + 1, Len(k)))
  IN {[name |-> rel(k)[1], isDirectory |-> Len(rel(k)) > 1] : k \in below}

LocalUpload(c, store, file, fileName, ctx) ==
  LET dirPath == PathJoin(<<c.basePath, ctx.directory>>)
      filePath == PathJoin(<<dirPath, fileName>>)
      urlPath == PathJoin(<<ctx.directory, fileName>>)
  IN [store |-> SdkPut(store, filePath, file),
      res |-> [BaseRes EXCEPT !.key = filePath, !.url = c.baseUrl \o <<SL>> \o urlPath,
                              !.path = urlPath, !.provider = "local"]]

LocalDownload(c, store, fileName, ctx) ==
  LET filePath == PathJoin(<<c.basePath, ctx.directory, fileName>>)
  IN [store |-> store,
      res |-> IF filePath \in DOMAIN store
                THEN [BaseRes EXCEPT !.key = filePath, !.file = store[filePath]]
              ELSE Rejected("File not found", filePath)]

\* unlink of a missing file fails with ENOENT, which delete answers with
\* {success: false}.
LocalDelete(c, store, fileName, ctx, answer) ==
  LET filePath == PathJoin(<<c.basePath, ctx.directory, fileName>>)
  IN [store |-> SdkRemove(store, filePath),
      res |-> [BaseRes EXCEPT !.key = filePath,
                 !.success = IF filePath \in DOMAIN store THEN "true" ELSE "false"]]

LocalList(c, store, ctx) ==
  LET dirPath == PathJoin(<<c.basePath, ctx.directory>>)
      fileStats == LocalReadDir(store, dirPath)
  IN [store |-> store,
      res |-> [BaseRes EXCEPT !.key = dirPath,
                 !.names = {f.name : f \in {g \in fileStats : ~g.isDirectory}}]]

LocalGetUrl(c, store, fileName, ctx) ==
  LET urlPath == PathJoin(<<ctx.directory, fileName>>)
  IN [store |-> store,
      res |-> [BaseRes EXCEPT !.key = urlPath, !.url = c.baseUrl \o <<SL>> \o urlPath]]

(***************************************************************************)
(* testConnection: what the probe of the backend answers is an input       *)
(***************************************************************************)

\* The answers of a one-item listing: "ok", or the name of the error.
CloudProbeAnswers ==
  {"ok", "NoSuchBucket", "AccessDenied", "InvalidAccessKeyId", "SignatureDoesNotMatch",
   "NetworkingError", "TimeoutError"}

\* The answers of mkdir(basePath, {recursive: true}): "ok", or the error code.
LocalProbeAnswers == {"ok", "EEXIST", "EACCES"}

ProbeAnswers(c) == IF c.adapter = "local" THEN LocalProbeAnswers ELSE CloudProbeAnswers

Connected(msg) == [BaseRes EXCEPT !.success = "true", !.message = <<msg>>]

NotConnected(msg) == [BaseRes EXCEPT !.success = "false", !.message = <<"Connection failed: ", msg>>]

S3TestConnection(c, store, answer) ==
  [store |-> store,
   res |-> IF answer = "ok"
             THEN Connected("S3 connection successful, credentials valid and bucket accessible")
           ELSE IF answer = "NoSuchBucket" THEN NotConnected("Bucket does not exist")
           ELSE IF answer = "AccessDenied"
             THEN NotConnected("Access denied, please check your permissions")
           ELSE IF answer = "InvalidAccessKeyId" THEN NotConnected("Invalid Access Key ID")
           ELSE IF answer = "SignatureDoesNotMatch" THEN NotConnected("Invalid Secret Access Key")
           ELSE IF answer = "NetworkingError" THEN NotConnected("Network connection failed")
           ELSE NotConnected(answer)]

AliyunTestConnection(c, store, answer) ==
  [store |-> store,
   res |-> IF answer = "ok" THEN Connected("Connection successful") ELSE NotConnected(answer)]

QCloudTestConnection(c, store, answer) ==
  [store |-> store,
   res |-> IF answer = "ok" THEN Connected("Connection successful") ELSE NotConnected(answer)]

\* ensureDir(dirPath): whether it resolves; it rethrows every error of mkdir
\* but EEXIST.
LocalEnsureDir(answer) == answer \in {"ok", "EEXIST"}

LocalTestConnection(c, store, answer) ==
  [store |-> store,
   res |-> IF LocalEnsureDir(answer) THEN Connected("Local storage directory accessible")
           ELSE NotConnected(answer)]

(***************************************************************************)
(* A failing backend call: what each operation does with the error         *)
(***************************************************************************)

\* The errors of a backend call: error.name of an SDK error, error.code of
\* a file system error.
BackendErrors(c) ==
  IF c.adapter = "local" THEN {"ENOENT", "EACCES"} ELSE {"NoSuchKey", "AccessDenied"}

\* The operations that call the backend: the getUrl of S3Provider signs
\* with the SDK, the other getUrl's compute the URL themselves.
BackendOps(c) ==
  {"upload", "download", "delete", "list"} \cup (IF c.adapter = "s3" THEN {"getUrl"} ELSE {})

\* catch (error) { console.error(...); throw error } in every operation.
S3OnError(op, err) == Rejected(err, <<>>)

AliyunOnError(op, err) == Rejected(err, <<>>)

QCloudOnError(op, err) == Rejected(err, <<>>)

\* upload has no catch; download, delete and list answer ENOENT themselves
\* and rethrow the other errors.
LocalOnError(op, err) ==
  IF err # "ENOENT" \/ op = "upload" THEN Rejected(err, <<>>)
  ELSE IF op = "download" THEN Rejected("File not found", <<>>)
  ELSE IF op = "delete" THEN [BaseRes EXCEPT !.success = "false", !.message = <<"File not found">>]
  ELSE BaseRes

onError(c, op, err) ==
  CASE c.adapter = "s3" -> S3OnError(op, err)
    [] c.adapter = "aliyun-oss" -> AliyunOnError(op, err)
    [] c.adapter = "tencent-cos" -> QCloudOnError(op, err)
    [] c.adapter = "local" -> LocalOnError(op, err)

(***************************************************************************)
(* The StorageProvider interface: a call goes to the configured adapter    *)
(***************************************************************************)

upload(c, store, file, fileName, ctx) ==
  CASE c.adapter = "s3" -> S3Upload(c, store, file, fileName, ctx)
    [] c.adapter = "aliyun-oss" -> AliyunUpload(c, store, file, fileName, ctx)
    [] c.adapter = "tencent-cos" -> QCloudUpload(c, store, file, fileName, ctx)
    [] c.adapter = "local" -> LocalUpload(c, store, file, fileName, ctx)

download(c, store, fileName, ctx) ==
  CASE c.adapter = "s3" -> S3Download(c, store, fileName, ctx)
    [] c.adapter = "aliyun-oss" -> AliyunDownload(c, store, fileName, ctx)
    [] c.adapter = "tencent-cos" -> QCloudDownload(c, store, fileName, ctx)
    [] c.adapter = "local" -> LocalDownload(c, store, fileName, ctx)

delete(c, store, fileName, ctx, answer) ==
  CASE c.adapter = "s3" -> S3Delete(c, store, fileName, ctx, answer)
    [] c.adapter = "aliyun-oss" -> AliyunDelete(c, store, fileName, ctx, answer)
    [] c.adapter = "tencent-cos" -> QCloudDelete(c, store, fileName, ctx, answer)
    [] c.adapter = "local" -> LocalDelete(c, store, fileName, ctx, answer)

list(c, store, ctx) ==
  CASE c.adapter = "s3" -> S3List(c, store, ctx)
    [] c.adapter = "aliyun-oss" -> AliyunList(c, store, ctx)
    [] c.adapter = "tencent-cos" -> QCloudList(c, store, ctx)
    [] c.adapter = "local" -> LocalList(c, store, ctx)

getUrl(c, store, fileName, ctx) ==
  CASE c.adapter = "s3" -> S3GetUrl(c, store, fileName, ctx)
    [] c.adapter = "aliyun-oss" -> AliyunGetUrl(c, store, fileName, ctx)
    [] c.adapter = "tencent-cos" -> QCloudGetUrl(c, store, fileName, ctx)
    [] c.adapter = "local" -> LocalGetUrl(c, store, fileName, ctx)

\* Only AliyunOSSProvider and QCloudCOSProvider have a getSignedUrl method.
getSignedUrl(c, store, fileName, expiresIn) ==
  CASE c.adapter = "aliyun-oss" -> AliyunGetSignedUrl(c, store, fileName, expiresIn)
    [] c.adapter = "tencent-cos" -> QCloudGetSignedUrl(c, store, fileName, expiresIn)

testConnection(c, store, answer) ==
  CASE c.adapter = "s3" -> S3TestConnection(c, store, answer)
    [] c.adapter = "aliyun-oss" -> AliyunTestConnection(c, store, answer)
    [] c.adapter = "tencent-cos" -> QCloudTestConnection(c, store, answer)
    [] c.adapter = "local" -> LocalTestConnection(c, store, answer)

(***************************************************************************)
(* The constructors of the cloud adapters.  A required option is "set",    *)
(* "empty" (the empty string) or "missing" (undefined); credentialId and   *)
(* credentialSecret stand for accessKeyId/SecretId and                     *)
(* secretAccessKey/accessKeySecret/SecretKey.                              *)
(***************************************************************************)

FieldValues == {"set", "empty", "missing"}

RequiredFields == {"credentialId", "credentialSecret", "bucket", "region"}

ConstructorOptions ==
  [adapter : CloudAdapters, credentialId : FieldValues, credentialSecret : FieldValues,
   bucket : FieldValues, region : FieldValues]

\* What the constructor of the SDK's client does with an option it is given
\* that is not set: the SDKs are not part of the sources.
SdkClientAnswers == {"ok", "throws"}

\* No provider instance.
NoProvider ==
  [adapter |-> "none", prefix |-> <<>>, cdnDomain |-> <<>>, endpoint |-> <<>>,
   pathStyle |-> FALSE, secure |-> TRUE, basePath |-> <<>>, baseUrl |-> <<>>]

\* The instance a constructor makes when it returns, every optional option
\* left out.
NewProvider(adapter) == [NoProvider EXCEPT !.adapter = adapter]

Constructed(adapter) == [provider |-> NewProvider(adapter), res |-> BaseRes]

Thrown(err) == [provider |-> NoProvider, res |-> Rejected(err, <<>>)]

\* new SDK client(fields): throws only if the SDK says so for a field that
\* is not set.
SdkClient(adapter, o, fields, sdk) ==
  IF sdk = "throws" /\ \E f \in fields : o[f] # "set"
    THEN Thrown("SdkClientError")
  ELSE Constructed(adapter)

S3Constructor(o, sdk) ==
  IF \E f \in {"region", "credentialId", "credentialSecret", "bucket"} : o[f] # "set"
    THEN Thrown("S3Provider: Missing required configuration")
  ELSE SdkClient("s3", o, {"credentialId", "credentialSecret", "region"}, sdk)

AliyunConstructor(o, sdk) ==
  SdkClient("aliyun-oss", o, {"credentialId", "credentialSecret", "bucket", "region"}, sdk)

QCloudConstructor(o, sdk) ==
  SdkClient("tencent-cos", o, {"credentialId", "credentialSecret"}, sdk)

constructor(o, sdk) ==
  CASE o.adapter = "s3" -> S3Constructor(o, sdk)
    [] o.adapter = "aliyun-oss" -> AliyunConstructor(o, sdk)
    [] o.adapter = "tencent-cos" -> QCloudConstructor(o, sdk)

(***************************************************************************)
(* The driver: a registry of named provider instances with a default one.  *)
(* The class StorageDriver that index.ts imports from './Driver' is not in *)
(* the sources; its operations follow spec.md, section 4.1.                *)
(***************************************************************************)

ProviderNames == {"x", "y"}

\* Provider instances, told apart by reference; 0 stands for no instance.
Instances == 1..NumInstances

DriverPaths ==
  {<<"a.txt">>, <<SL, "sub", SL, "a.txt">>, <<SL, SL, "sub", SL, SL, "deep", SL, "a.txt">>}

PathOps == {"uploadFile", "downloadFile", "deleteFile", "getFileUrl"}

\* new StorageDriver(): no provider, no default.
NewStorageDriver == [providers |-> [n \in {} |-> 0], defaultProvider |-> ""]

\* registerProvider that keeps the instance a name already has.
RegisterProviderKeepFirst(d, name, inst) ==
  [d EXCEPT !.providers =
     [n \in DOMAIN d.providers \cup {name} |->
        IF n \in DOMAIN d.providers THEN d.providers[n] ELSE inst]]

\* registerProvider(name, instance): idempotent overwrite.
RegisterProvider(d, name, inst) ==
  [d EXCEPT !.providers =
     [n \in DOMAIN d.providers \cup {name} |-> IF n = name THEN inst ELSE d.providers[n]]]

\* removeProvider that clears the default pointer with the default's entry.
RemoveProviderClearingDefault(d, name) ==
  [providers |-> [n \in DOMAIN d.providers \ {name} |-> d.providers[n]],
   defaultProvider |-> IF d.defaultProvider = name THEN "" ELSE d.defaultProvider]

\* removeProvider(name): no-op if absent, the default pointer is not touched.
RemoveProvider(d, name) ==
  [d EXCEPT !.providers = [n \in DOMAIN d.providers \ {name} |-> d.providers[n]]]

\* setDefaultProvider that does not look the name up.
SetDefaultProviderUnchecked(d, name) ==
  [driver |-> [d EXCEPT !.defaultProvider = name], outcome |-> "ok", error |-> ""]

\* setDefaultProvider(name): throws ProviderNotFoundError if name is not
\* registered.
SetDefaultProvider(d, name) ==
  IF name \in DOMAIN d.providers
    THEN [driver |-> [d EXCEPT !.defaultProvider = name], outcome |-> "ok", error |-> ""]
  ELSE [driver |-> d, outcome |-> "rejected", error |-> "ProviderNotFoundError"]

NoDispatch == [outcome |-> "ok", error |-> "", inst |-> 0, fileName |-> <<>>, directory |-> <<>>]

\* getDefaultProvider that falls back on some registered instance when the
\* default name is not registered.
GetDefaultProviderOrAny(d) ==
  IF d.defaultProvider \in DOMAIN d.providers
    THEN [NoDispatch EXCEPT !.inst = d.providers[d.defaultProvider]]
  ELSE IF d.providers # <<>>
    THEN [NoDispatch EXCEPT !.inst = d.providers[CHOOSE n \in DOMAIN d.providers : TRUE]]
  ELSE [NoDispatch EXCEPT !.outcome = "rejected", !.error = "ProviderNotFoundError"]

\* getDefaultProvider(): the instance registered under the default name.
GetDefaultProvider(d) ==
  IF d.defaultProvider \in DOMAIN d.providers
    THEN [NoDispatch EXCEPT !.inst = d.providers[d.defaultProvider]]
  ELSE [NoDispatch EXCEPT !.outcome = "rejected", !.error = "ProviderNotFoundError"]

\* The split of the path as it is given, at its last separator.
SplitPathRaw(path) ==
  LET segs == SplitSlash(path)
  IN [fileName |-> segs[Len(segs)], directory |-> JoinSlash(SubSeq(segs, 1, Len(segs) - 1))]

\* The path of a path-based operation: leading slashes stripped, separators
\* normalized, then split into the last segment and the segments before it.
SplitPath(path) ==
  LET segs == SplitSlash(Normalize(path))
  IN [fileName |-> segs[Len(segs)], directory |-> JoinSlash(SubSeq(segs, 1, Len(segs) - 1))]

\* uploadFile/downloadFile/deleteFile/getFileUrl(path): the call the default
\* provider receives.
DriverDispatch(d, path) ==
  LET provider == GetDefaultProvider(d)
  IN IF provider.outcome # "ok" THEN provider
     ELSE [provider EXCEPT !.fileName = SplitPath(path).fileName,
                           !.directory = SplitPath(path).directory]

\* The loop of createStorageDriver over Object.entries(options.providers).
RECURSIVE RegisterEntries(_, _, _)
RegisterEntries(d, providers, names) ==
  IF names = {} THEN d
  ELSE LET name == CHOOSE n \in names : TRUE
       IN RegisterEntries(RegisterProvider(d, name, providers[name]), providers,
                          names \ {name})

\* createStorageDriver with the registration loop left out.
CreateStorageDriverNoRegistration(options) ==
  [driver |-> [NewStorageDriver EXCEPT !.defaultProvider = options.defaultProvider],
   outcome |-> "ok", error |-> ""]

\* createStorageDriver calling setDefaultProvider for every defaultProvider
\* it is given.
CreateStorageDriverUnguarded(options) ==
  LET driver0 == RegisterEntries(NewStorageDriver, options.providers, DOMAIN options.providers)
  IN IF options.defaultProvider # ""
       THEN SetDefaultProvider(driver0, options.defaultProvider)
     ELSE [driver |-> driver0, outcome |-> "ok", error |-> ""]

\* createStorageDriver(options); defaultProvider "" is an absent option.
\* The driver it returns, or the error a call it makes throws.
CreateStorageDriver(options) ==
  LET driver0 == RegisterEntries(NewStorageDriver, options.providers, DOMAIN options.providers)
  IN IF options.defaultProvider # "" /\ options.defaultProvider \in DOMAIN options.providers
       THEN SetDefaultProvider(driver0, options.defaultProvider)
     ELSE [driver |-> driver0, outcome |-> "ok", error |-> ""]

\* The options of createStorageDriver.
DriverOptions ==
  {[defaultProvider |-> dn, providers |-> ps] :
     dn \in {""} \cup ProviderNames,
     ps \in UNION {[ns -> Instances] : ns \in SUBSET ProviderNames}}

(***************************************************************************)
(* Driver: one engine, loaded asynchronously by the constructor            *)
(***************************************************************************)

\* storageEngineMap as the field initialiser makes it: for each name, the
\* class its factory imports and instantiates.
BuiltinEngines ==
  [n \in {"local", "aliyun", "qcloud", "s3"} |->
     CASE n = "local" -> "LocalStorageProvider"
       [] n = "aliyun" -> "AliyunOSSProvider"
       [] n = "qcloud" -> "QCloudCOSProvider"
       [] n = "s3" -> "S3Provider"]

\* The storage argument of the constructor; "undefined" is an omitted
\* argument, which the parameter default 's3' replaces.
StorageArgs == {"undefined", "", "s3", "custom"}

\* config.defaultProvider; "" is a config without it.
ConfigDefaultProviders == {"", "local", "custom"}

\* The names registerCustomProvider is called with, and the classes.
CustomNames == {"custom", "s3"}

CustomProviders == {"P"}

\* What fs.promises.readFile(filePath) answers in upload.
ReadFileAnswers == {"ok", "ENOENT"}

EngineNotInitialized == "Storage engine not initialized."

\* `Storage provider "${storage}" not found.`
StorageProviderNotFound == "Storage provider not found."

NoDriver ==
  [storageEngineMap |-> BuiltinEngines, config |-> [defaultProvider |-> ""],
   storage |-> "", engine |-> "", factory |-> "", initEngine |-> "none", rejection |-> ""]

\* initEngine(storage) up to its first await: the factory is looked up in
\* the map as it is now; without a factory the promise initEngine returns
\* is rejected.
InitEngine(d, storage) ==
  IF storage \in DOMAIN d.storageEngineMap
    THEN [d EXCEPT !.storage = storage, !.factory = d.storageEngineMap[storage],
                   !.initEngine = "pending"]
  ELSE [d EXCEPT !.storage = storage, !.initEngine = "rejected",
                 !.rejection = StorageProviderNotFound]

\* new Driver(config, storage): initEngine is called and not awaited, so
\* what it throws rejects a promise nobody holds and the constructor returns.
DriverConstructor(config, storage) ==
  LET s == IF storage = "undefined" THEN "s3" ELSE storage
      d == [NoDriver EXCEPT !.config = config]
  IN [driver |-> InitEngine(d, IF s # "" THEN s ELSE config.defaultProvider),
      outcome |-> "ok", error |-> ""]

\* registerCustomProvider(name, provider)
RegisterCustomProvider(d, name, provider) ==
  [d EXCEPT !.storageEngineMap =
     [n \in DOMAIN d.storageEngineMap \cup {name} |->
        IF n = name THEN provider ELSE d.storageEngineMap[n]]]

\* The await of initEngine resumes with the provider instance.
EngineResolved(d) == [d EXCEPT !.engine = d.factory, !.initEngine = "resolved"]

\* The import, or the provider's constructor, throws.
EngineRejected(d, err) == [d EXCEPT !.initEngine = "rejected", !.rejection = err]

NoDriverRes == [outcome |-> "none", error |-> "", delegated |-> ""]

NotInitialized == [outcome |-> "rejected", error |-> EngineNotInitialized, delegated |-> ""]

\* this.engine.<method>(...): what the engine answers is the call's answer.
Delegated(d) == [outcome |-> "delegated", error |-> "", delegated |-> d.engine]

\* download without the test of this.engine.
DriverDownloadUnguarded(d) == Delegated(d)

DriverUpload(d, readFile) ==
  IF d.engine = "" THEN NotInitialized
  ELSE IF readFile # "ok" THEN [outcome |-> "rejected", error |-> readFile, delegated |-> ""]
  ELSE Delegated(d)

DriverDownload(d) == IF d.engine = "" THEN NotInitialized ELSE Delegated(d)

DriverDelete(d) == IF d.engine = "" THEN NotInitialized ELSE Delegated(d)

DriverList(d) == IF d.engine = "" THEN NotInitialized ELSE Delegated(d)

DriverGetUrl(d) == IF d.engine = "" THEN NotInitialized ELSE Delegated(d)

NoDriverCall == [op |-> "none", name |-> "", engine |-> "", answer |-> "", res |-> NoDriverRes]

(***************************************************************************)
(* State                                                                   *)
(***************************************************************************)

VARIABLES
  cfg,       \* the options the provider was constructed with
  objects,   \* the backend: the bucket's objects, or the files of the host
  last,      \* the latest call on the provider and what it resolved to
  uploaded,  \* for each (fileName, directory) uploaded and not deleted since:
             \* the buffer of the latest upload and the key it was stored under
  input,     \* InitInput: the one (file, fileName, context) every call uses
  driver,    \* the driver: its registry and its default pointer
  regLast,   \* the latest call on the driver and what it returned
  options,   \* InitConstruct: the options a constructor is called with
  hist,      \* what the driver was told: the instance last registered under
             \* each name still registered, the names made default since they
             \* were registered, the name made default last
  drv,       \* a Driver: its engine map, the engine load its constructor
             \* started, and its engine
  drvLast,   \* the latest call on the Driver and what it did
  listing    \* a LocalStorageProvider.list call on its way: the entries
             \* readdir gave, the entries stat has answered for

vars ==
  <<cfg, objects, last, uploaded, input, driver, regLast, options, hist, drv, drvLast, listing>>

NoListing ==
  [phase |-> "idle", ctx |-> [directory |-> <<>>, expiresIn |-> 0], dirPath |-> <<>>,
   files |-> {}, fileStats |-> {}]

NoOptions == [adapter |-> "none", credentialId |-> "set", credentialSecret |-> "set",
              bucket |-> "set", region |-> "set"]

NoHist == [registered |-> [n \in {} |-> 0], defaulted |-> {}, latest |-> ""]

NoRegCall == [op |-> "none", name |-> "", inst |-> 0, path |-> <<>>,
              pre |-> NewStorageDriver, res |-> NoDispatch]

EmptyStore == [k \in {} |-> 0]

NotUploaded == [file |-> 0, key |-> <<>>]

NoInput == [file |-> 0, fileName |-> <<>>, ctx |-> [directory |-> <<>>, expiresIn |-> 0]]

NoCall ==
  [op |-> "none", file |-> 0, fileName |-> <<>>,
   ctx |-> [directory |-> <<>>, expiresIn |-> 0], before |-> NotUploaded, answer |-> "",
   res |-> BaseRes]

\* What uploaded holds for a (fileName, directory).
Uploaded(t) == IF t \in DOMAIN uploaded THEN uploaded[t] ELSE NotUploaded

\* A call as last records it; before is, for a delete, what uploaded held
\* for the call's (fileName, directory) when the call was made.
Call(op, file, fileName, ctx, res) ==
  [op |-> op, file |-> file, fileName |-> fileName, ctx |-> ctx,
   before |-> IF op = "delete" THEN Uploaded(<<fileName, ctx.directory>>) ELSE NotUploaded,
   answer |-> "",
   res |-> res]

\* A provider right after its construction, over an empty backend.
Init ==
  /\ cfg \in StoreConfigs
  /\ objects = EmptyStore
  /\ last = NoCall
  /\ uploaded = [t \in {} |-> NotUploaded]
  /\ input = NoInput
  /\ driver = NewStorageDriver
  /\ regLast = NoRegCall
  /\ hist = NoHist
  /\ options = NoOptions
  /\ drv = NoDriver
  /\ drvLast = NoDriverCall
  /\ listing = NoListing

\* As Init, with every option of the configuration drawn, and the inputs of
\* the calls drawn once.
InitInput ==
  /\ cfg \in Configs
  /\ objects = EmptyStore
  /\ last = NoCall
  /\ uploaded = [t \in {} |-> NotUploaded]
  /\ input \in [file : Buffers, fileName : InputFileNames,
                ctx : [directory : InputDirectories, expiresIn : ExpiresInputs]]
  /\ driver = NewStorageDriver
  /\ regLast = NoRegCall
  /\ hist = NoHist
  /\ options = NoOptions
  /\ drv = NoDriver
  /\ drvLast = NoDriverCall
  /\ listing = NoListing

UploadCall(file, fileName, ctx) ==
  \E r \in {upload(cfg, objects, file, fileName, ctx)} :
     /\ objects' = r.store
     /\ last' = Call("upload", file, fileName, ctx, r.res)
     /\ uploaded' = IF r.res.outcome = "ok"
                      THEN [t \in DOMAIN uploaded \cup {<<fileName, ctx.directory>>} |->
                              IF t = <<fileName, ctx.directory>>
                                THEN [file |-> file, key |-> r.res.key]
                              ELSE uploaded[t]]
                    ELSE uploaded
     /\ UNCHANGED <<cfg, input, driver, regLast, options, hist, drv, drvLast, listing>>

DownloadCall(fileName, ctx) ==
  \E r \in {download(cfg, objects, fileName, ctx)} :
     /\ objects' = r.store
     /\ last' = Call("download", 0, fileName, ctx, r.res)
     /\ UNCHANGED <<cfg, uploaded, input, driver, regLast, options, hist, drv, drvLast, listing>>

DeleteCall(fileName, ctx, answer) ==
  \E r \in {delete(cfg, objects, fileName, ctx, answer)} :
     /\ objects' = r.store
     /\ last' = Call("delete", 0, fileName, ctx, r.res)
     /\ uploaded' = IF r.res.outcome = "ok"
                      THEN [t \in DOMAIN uploaded \ {<<fileName, ctx.directory>>} |->
                              uploaded[t]]
                    ELSE uploaded
     /\ UNCHANGED <<cfg, input, driver, regLast, options, hist, drv, drvLast, listing>>

ListCall(ctx) ==
  \E r \in {list(cfg, objects, ctx)} :
     /\ objects' = r.store
     /\ last' = Call("list", 0, <<>>, ctx, r.res)
     /\ UNCHANGED <<cfg, uploaded, input, driver, regLast, options, hist, drv, drvLast, listing>>

GetUrlCall(fileName, ctx) ==
  \E r \in {getUrl(cfg, objects, fileName, ctx)} :
     /\ objects' = r.store
     /\ last' = Call("getUrl", 0, fileName, ctx, r.res)
     /\ UNCHANGED <<cfg, uploaded, input, driver, regLast, options, hist, drv, drvLast, listing>>

GetSignedUrlCall(fileName, expiresIn) ==
  /\ cfg.adapter \in {"aliyun-oss", "tencent-cos"}
  /\ \E r \in {getSignedUrl(cfg, objects, fileName, expiresIn)} :
        /\ objects' = r.store
        /\ last' = Call("getSignedUrl", 0, fileName,
                        [directory |-> <<>>, expiresIn |-> expiresIn], r.res)
        /\ UNCHANGED <<cfg, uploaded, input, driver, regLast, options, hist, drv, drvLast, listing>>

TestConnectionCall(answer) ==
  \E r \in {testConnection(cfg, objects, answer)} :
     /\ objects' = r.store
     /\ last' = [Call("testConnection", 0, <<>>, [directory |-> <<>>, expiresIn |-> 0], r.res)
                  EXCEPT !.answer = answer]
     /\ UNCHANGED <<cfg, uploaded, input, driver, regLast, options, hist, drv, drvLast, listing>>

\* A call whose backend call fails with err: nothing is stored or removed.
FailedCall(op, fileName, ctx, err) ==
  /\ last' = [Call(op, 0, fileName, ctx, onError(cfg, op, err)) EXCEPT !.answer = err]
  /\ UNCHANGED <<cfg, objects, uploaded, input, driver, regLast, options, hist, drv, drvLast, listing>>

Upload ==
  \E file \in Buffers, fileName \in FileNames, ctx \in Contexts :
    UploadCall(file, fileName, ctx)

Download ==
  \E fileName \in FileNames, ctx \in Contexts : DownloadCall(fileName, ctx)

Delete ==
  \E fileName \in FileNames, ctx \in Contexts, answer \in DeleteMissingAnswers :
    DeleteCall(fileName, ctx, answer)

List ==
  \E ctx \in Contexts : ListCall(ctx)

\* The calls that read or write the backend, on any inputs.
Next ==
  \/ Upload
  \/ Download
  \/ Delete
  \/ List

Spec == Init /\ [][Next]_vars

\* Every call of the interface, on the inputs drawn by InitInput.
UploadInput == UploadCall(input.file, input.fileName, input.ctx)

DownloadInput == DownloadCall(input.fileName, input.ctx)

DeleteInput == \E answer \in DeleteMissingAnswers : DeleteCall(input.fileName, input.ctx, answer)

ListInput == ListCall(input.ctx)

GetUrlInput == GetUrlCall(input.fileName, input.ctx)

GetSignedUrlInput == GetSignedUrlCall(input.fileName, input.ctx.expiresIn)

TestConnectionInput == \E answer \in ProbeAnswers(cfg) : TestConnectionCall(answer)

FailedInput ==
  \E op \in BackendOps(cfg), err \in BackendErrors(cfg) :
     FailedCall(op, input.fileName, input.ctx, err)

NextInput ==
  \/ UploadInput
  \/ DownloadInput
  \/ DeleteInput
  \/ ListInput
  \/ GetUrlInput
  \/ GetSignedUrlInput
  \/ TestConnectionInput
  \/ FailedInput

SpecInput == InitInput /\ [][NextInput]_vars

(***************************************************************************)
(* Uploads, deletes and listings within one directory                      *)
(***************************************************************************)

\* As Init, with the one directory of every call drawn.
InitDir ==
  /\ cfg \in StoreConfigs
  /\ objects = EmptyStore
  /\ last = NoCall
  /\ uploaded = [t \in {} |-> NotUploaded]
  /\ input \in {[NoInput EXCEPT !.ctx.directory = d] : d \in Directories}
  /\ driver = NewStorageDriver
  /\ regLast = NoRegCall
  /\ hist = NoHist
  /\ options = NoOptions
  /\ drv = NoDriver
  /\ drvLast = NoDriverCall
  /\ listing = NoListing

UploadDir == \E file \in Buffers, fileName \in FileNames : UploadCall(file, fileName, input.ctx)

DeleteDir ==
  \E fileName \in FileNames, answer \in DeleteMissingAnswers :
     DeleteCall(fileName, input.ctx, answer)

ListDir == ListCall(input.ctx)

NextDir ==
  \/ UploadDir
  \/ DeleteDir
  \/ ListDir

SpecDir == InitDir /\ [][NextDir]_vars

(***************************************************************************)
(* Construction of a cloud adapter                                         *)
(***************************************************************************)

\* Before a constructor is called: no provider, the options drawn.
InitConstruct ==
  /\ cfg = NoProvider
  /\ objects = EmptyStore
  /\ last = NoCall
  /\ uploaded = [t \in {} |-> NotUploaded]
  /\ input = NoInput
  /\ driver = NewStorageDriver
  /\ regLast = NoRegCall
  /\ hist = NoHist
  /\ options \in ConstructorOptions
  /\ drv = NoDriver
  /\ drvLast = NoDriverCall
  /\ listing = NoListing

Construct ==
  /\ last.op = "none"
  /\ \E sdk \in SdkClientAnswers :
        \E r \in {constructor(options, sdk)} :
           /\ cfg' = r.provider
           /\ last' = [Call("constructor", 0, <<>>, [directory |-> <<>>, expiresIn |-> 0], r.res)
                        EXCEPT !.answer = sdk]
           /\ UNCHANGED <<objects, uploaded, input, driver, regLast, options, hist, drv, drvLast, listing>>

NextConstruct == Construct

SpecConstruct == InitConstruct /\ [][NextConstruct]_vars

(***************************************************************************)
(* The driver's calls                                                      *)
(***************************************************************************)

RegCall(op, name, inst, path, res) ==
  [op |-> op, name |-> name, inst |-> inst, path |-> path, pre |-> driver, res |-> res]

\* A driver as createStorageDriver returns it.
InitRegistry ==
  /\ cfg \in LocalConfigs
  /\ objects = EmptyStore
  /\ last = NoCall
  /\ uploaded = [t \in {} |-> NotUploaded]
  /\ input = NoInput
  /\ options = NoOptions
  /\ drv = NoDriver
  /\ drvLast = NoDriverCall
  /\ listing = NoListing
  /\ \E opts \in DriverOptions :
        /\ driver = CreateStorageDriver(opts).driver
        /\ regLast = [NoRegCall EXCEPT !.op = "createStorageDriver",
                                       !.name = opts.defaultProvider,
                                       !.res.outcome = CreateStorageDriver(opts).outcome,
                                       !.res.error = CreateStorageDriver(opts).error]
        /\ hist = [registered |-> opts.providers,
                   defaulted |-> {opts.defaultProvider} \cap DOMAIN opts.providers,
                   latest |-> IF opts.defaultProvider \in DOMAIN opts.providers
                                THEN opts.defaultProvider ELSE ""]

RegisterProviderCall ==
  \E name \in ProviderNames, inst \in Instances :
     /\ driver' = RegisterProvider(driver, name, inst)
     /\ regLast' = RegCall("registerProvider", name, inst, <<>>, NoDispatch)
     /\ hist' = [hist EXCEPT
                   !.registered = [n \in DOMAIN hist.registered \cup {name} |->
                                     IF n = name THEN inst ELSE hist.registered[n]],
                   !.defaulted = hist.defaulted \ {name}]
     /\ UNCHANGED <<cfg, objects, last, uploaded, input, options, drv, drvLast, listing>>

RemoveProviderCall ==
  \E name \in ProviderNames :
     /\ driver' = RemoveProvider(driver, name)
     /\ regLast' = RegCall("removeProvider", name, 0, <<>>, NoDispatch)
     /\ hist' = [hist EXCEPT
                   !.registered = [n \in DOMAIN hist.registered \ {name} |->
                                     hist.registered[n]],
                   !.defaulted = hist.defaulted \ {name}]
     /\ UNCHANGED <<cfg, objects, last, uploaded, input, options, drv, drvLast, listing>>

SetDefaultProviderCall ==
  \E name \in ProviderNames :
     \E r \in {SetDefaultProvider(driver, name)} :
        /\ driver' = r.driver
        /\ regLast' = RegCall("setDefaultProvider", name, 0, <<>>,
                              [NoDispatch EXCEPT !.outcome = r.outcome, !.error = r.error])
        /\ hist' = IF name \in DOMAIN hist.registered
                     THEN [hist EXCEPT !.defaulted = hist.defaulted \cup {name},
                                       !.latest = name]
                   ELSE hist
        /\ UNCHANGED <<cfg, objects, last, uploaded, input, options, drv, drvLast, listing>>

GetDefaultProviderCall ==
  /\ regLast' = RegCall("getDefaultProvider", "", 0, <<>>, GetDefaultProvider(driver))
  /\ UNCHANGED <<cfg, objects, last, uploaded, input, options, driver, hist, drv, drvLast, listing>>

PathCall ==
  \E op \in PathOps, path \in DriverPaths :
     /\ regLast' = RegCall(op, "", 0, path, DriverDispatch(driver, path))
     /\ UNCHANGED <<cfg, objects, last, uploaded, input, options, driver, hist, drv, drvLast, listing>>

NextRegistry ==
  \/ RegisterProviderCall
  \/ RemoveProviderCall
  \/ SetDefaultProviderCall
  \/ GetDefaultProviderCall
  \/ PathCall

SpecRegistry == InitRegistry /\ [][NextRegistry]_vars

(***************************************************************************)
(* Claims about the adapters                                               *)
(***************************************************************************)

\* C1: in every adapter and configuration, a download of a (fileName,
\* directory) that was uploaded, with no later upload or delete of it,
\* resolves to the buffer that was uploaded.
C1_RoundTrip ==
  (last.op = "download" /\ <<last.fileName, last.ctx.directory>> \in DOMAIN uploaded)
    => /\ last.res.outcome = "ok"
       /\ last.res.file = uploaded[<<last.fileName, last.ctx.directory>>].file

\* C2: in every cloud adapter the key an upload stores under is
\* normalize(prefix + '/' + directory + '/' + fileName), repeated separators
\* collapsed and no leading separator, so that inputs differing only by
\* redundant separators get the same key.
C2_ObjectKeyNormalized ==
  (last.op = "upload" /\ cfg.adapter \in CloudAdapters)
    => last.res.key =
         Normalize(cfg.prefix \o <<SL>> \o last.ctx.directory \o <<SL>> \o last.fileName)

\* C3: after an upload followed by a delete of the same (fileName,
\* directory), the uploaded object is gone: its key is not in the backend, a
\* download rejects and list does not hold the name.
C3_DeleteRemovesUpload ==
  (last.op = "delete" /\ last.res.outcome = "ok" /\ last.before.file # 0)
    => /\ last.before.key \notin DOMAIN objects
       /\ download(cfg, objects, last.fileName, last.ctx).res.outcome = "rejected"
       /\ last.fileName \notin list(cfg, objects, last.ctx).res.names

\* C4: a delete of a (fileName, directory) that is not uploaded, or was
\* deleted already, never rejects, whatever the backend answers.
C4_DeleteMissingNeverRejects ==
  (last.op = "delete" /\ last.before.file = 0) => last.res.outcome = "ok"

\* C5: list({directory: 'sub'}) holds every name uploaded under 'sub' and no
\* name that is uploaded under the root only.
C5_ListScoping ==
  (last.op = "list" /\ last.ctx.directory = SubDir)
    => \A n \in FileNames :
         /\ <<n, SubDir>> \in DOMAIN uploaded => n \in last.res.names
         /\ (<<n, SubDir>> \notin DOMAIN uploaded /\ <<n, RootDir>> \in DOMAIN uploaded)
              => n \notin last.res.names

\* C6: list(ctx) returns the names as they were given to upload(_, name,
\* ctx): the entry of an uploaded object is its fileName, and no entry is a
\* full backend key.
C6_ListNamesRelative ==
  last.op = "list"
    => last.res.names = {n \in FileNames : <<n, last.ctx.directory>> \in DOMAIN uploaded}

\* C7: with cdnDomain (Domain) configured, the url of an upload result and
\* the result of getUrl without expiresIn are cdnDomain + '/' + objectKey.
C7_CdnPrecedence ==
  (/\ cfg.cdnDomain # <<>>
   /\ last.res.outcome = "ok"
   /\ last.op = "upload" \/ (last.op = "getUrl" /\ last.ctx.expiresIn = 0))
    => last.res.url = cfg.cdnDomain \o <<SL>> \o last.res.key

\* C8: getUrl resolves to an unsigned URL when the context has no expiresIn,
\* and to a URL signed for expiresIn seconds when it has one and the adapter
\* can sign (the three cloud adapters).
C8_GetUrlPublicOrSigned ==
  last.op = "getUrl"
    => IF last.ctx.expiresIn = 0 THEN ~last.res.signed
       ELSE cfg.adapter \in CloudAdapters
              => last.res.signed /\ last.res.expires = last.ctx.expiresIn

(***************************************************************************)
(* Claims about the driver                                                 *)
(***************************************************************************)

\* C9 as stated: for every name x that was registered with inst and then
\* made the default with no later register or remove of x,
\* getDefaultProvider() returns inst and the path-based operations are
\* dispatched to inst.
C9_DefaultReturnsRegistered ==
  \A x \in hist.defaulted :
     /\ GetDefaultProvider(driver).outcome = "ok"
     /\ GetDefaultProvider(driver).inst = hist.registered[x]
     /\ regLast.op \in PathOps \cup {"getDefaultProvider"}
          => regLast.res.outcome = "ok" /\ regLast.res.inst = hist.registered[x]

\* C9, amended: for the name x that was registered with inst and then made
\* the default, with no later register or remove of x and no later
\* setDefaultProvider of another registered name, getDefaultProvider()
\* returns inst and the path-based operations are dispatched to inst.
C9_LatestDefaultReturnsRegistered ==
  \A x \in hist.defaulted \cap {hist.latest} :
     /\ GetDefaultProvider(driver).outcome = "ok"
     /\ GetDefaultProvider(driver).inst = hist.registered[x]
     /\ regLast.op \in PathOps \cup {"getDefaultProvider"}
          => regLast.res.outcome = "ok" /\ regLast.res.inst = hist.registered[x]

\* A path-based operation was dispatched to the instance of the default x
\* while another name was registered too, with another instance.
C9_Witness ==
  /\ regLast.op \in PathOps
  /\ hist.latest \in hist.defaulted
  /\ regLast.res.inst = hist.registered[hist.latest]
  /\ \E y \in DOMAIN hist.registered : hist.registered[y] # hist.registered[hist.latest]

\* C10: setDefaultProvider(name) with a name that is not registered when the
\* call is made fails with ProviderNotFoundError and leaves the registry map
\* and the default pointer as they were.
C10_SetDefaultUnregisteredFails ==
  (regLast.op = "setDefaultProvider" /\ regLast.name \notin DOMAIN hist.registered)
    => /\ regLast.res.outcome = "rejected"
       /\ regLast.res.error = "ProviderNotFoundError"
       /\ driver = regLast.pre

\* setDefaultProvider failed on a name that is not registered while another
\* name is registered and is the default.
C10_Witness ==
  /\ regLast.op = "setDefaultProvider"
  /\ regLast.name \notin DOMAIN driver.providers
  /\ regLast.res.error = "ProviderNotFoundError"
  /\ driver.defaultProvider \in DOMAIN driver.providers

\* C11: whatever registerProvider, removeProvider and setDefaultProvider
\* calls were made, a call against the default (getDefaultProvider or a
\* path-based operation) reaches the instance registered now under the name
\* made default last, or fails with ProviderNotFoundError when no instance
\* is registered under it; it never reaches a removed or replaced instance.
C11_DefaultCurrentOrNotFound ==
  regLast.op \in PathOps \cup {"getDefaultProvider"}
    => IF hist.latest \in DOMAIN hist.registered
         THEN regLast.res.outcome = "ok" /\ regLast.res.inst = hist.registered[hist.latest]
       ELSE /\ regLast.res.outcome = "rejected"
            /\ regLast.res.error = "ProviderNotFoundError"
            /\ regLast.res.inst = 0

\* A path-based operation failed with ProviderNotFoundError because the
\* default was removed, while another provider is registered.
C11_Witness ==
  /\ regLast.op \in PathOps
  /\ regLast.res.error = "ProviderNotFoundError"
  /\ hist.latest # ""
  /\ hist.latest \notin DOMAIN hist.registered
  /\ DOMAIN hist.registered # {}

\* C12: removeProvider(name) does not fail; for a name that is not
\* registered it changes nothing; for the current default it removes the
\* entry and leaves the default pointer and all other entries as they were.
C12_RemoveProviderFrame ==
  regLast.op = "removeProvider"
    => /\ regLast.res.outcome = "ok"
       /\ regLast.name \notin DOMAIN regLast.pre.providers => driver = regLast.pre
       /\ regLast.name \notin DOMAIN driver.providers
       /\ driver.defaultProvider = regLast.pre.defaultProvider
       /\ DOMAIN driver.providers = DOMAIN regLast.pre.providers \ {regLast.name}
       /\ \A n \in DOMAIN driver.providers : driver.providers[n] = regLast.pre.providers[n]

\* removeProvider removed the current default while another provider was
\* registered; the default pointer still names the removed provider.
C12_Witness ==
  /\ regLast.op = "removeProvider"
  /\ regLast.name \in DOMAIN regLast.pre.providers
  /\ regLast.name = regLast.pre.defaultProvider
  /\ driver.defaultProvider = regLast.name
  /\ DOMAIN driver.providers # {}

\* C13: registerProvider(name, inst) makes name map to inst, also when name
\* was registered with another instance; registering the same (name, inst)
\* again changes nothing; other entries and the default pointer stay.
C13_RegisterProviderOverwrite ==
  regLast.op = "registerProvider"
    => /\ DOMAIN driver.providers = DOMAIN regLast.pre.providers \cup {regLast.name}
       /\ driver.providers[regLast.name] = regLast.inst
       /\ \A n \in DOMAIN driver.providers \ {regLast.name} :
             driver.providers[n] = regLast.pre.providers[n]
       /\ driver.defaultProvider = regLast.pre.defaultProvider
       /\ RegisterProvider(driver, regLast.name, regLast.inst) = driver

\* registerProvider replaced the instance of the current default by another
\* one.
C13_Witness ==
  /\ regLast.op = "registerProvider"
  /\ regLast.name \in DOMAIN regLast.pre.providers
  /\ regLast.pre.providers[regLast.name] # regLast.inst
  /\ driver.defaultProvider = regLast.name
  /\ driver.providers[regLast.name] = regLast.inst

C15_TestConnectionNeverRejects ==
  last.op = "testConnection"
    => /\ last.res.outcome = "ok"
       /\ last.res.success \in {"true", "false"}
       /\ last.res.message # <<>>
       /\ last.res.success = "true" <=> last.answer = "ok"

\* C16: a constructor of a cloud adapter that is given a required
\* credential, bucket or region option that is missing or empty throws, and
\* no provider instance comes to exist.
C16_FailFastConstruction ==
  (last.op = "constructor" /\ \E f \in RequiredFields : options[f] # "set")
    => last.res.outcome = "rejected" /\ cfg = NoProvider

\* C17: a download of a (fileName, directory) that is not uploaded (never
\* was, or was deleted since) rejects with a not-found error instead of
\* resolving to some bytes, and leaves the stored objects as they are.
C17_DownloadMissingRejects ==
  (last.op = "download" /\ <<last.fileName, last.ctx.directory>> \notin DOMAIN uploaded)
    => /\ last.res.outcome = "rejected"
       /\ last.res.error \in {"NoSuchKey", "File not found"}
       /\ last.res.file = 0
       /\ download(cfg, objects, last.fileName, last.ctx).store = objects

\* C18: when the backend call of an upload, download, delete, list or
\* getUrl fails, the operation rejects with the backend's error; the one
\* exception is a delete whose backend call fails because the key is
\* missing.
C18_BackendErrorsRethrown ==
  (/\ last.op \in {"upload", "download", "delete", "list", "getUrl"}
   /\ last.answer # ""
   /\ ~(last.op = "delete" /\ last.answer \in {"ENOENT", "NoSuchKey"}))
    => last.res.outcome = "rejected" /\ last.res.error = last.answer

\* C19: a successful upload resolves to an object with url, path and
\* provider: the content is stored under path (for Local: under path below
\* basePath), url is a URL that ends in '/' + path, and provider is the name
\* of the adapter.
C19_UploadResultEnvelope ==
  (last.op = "upload" /\ last.res.outcome = "ok")
    => LET storedUnder == IF cfg.adapter = "local"
                            THEN PathJoin(<<cfg.basePath, last.res.path>>)
                          ELSE last.res.path
           tail == <<SL>> \o last.res.path
       IN /\ last.res.path # <<>>
          /\ storedUnder \in DOMAIN objects
          /\ objects[storedUnder] = last.file
          /\ Len(last.res.url) > Len(tail)
          /\ SubSeq(last.res.url, Len(last.res.url) - Len(tail) + 1, Len(last.res.url)) = tail
          /\ last.res.provider = cfg.adapter

\* C20: after any uploads and deletes within one directory, list of that
\* directory returns exactly the names uploaded and not deleted since.
C20_ListIsLiveNames ==
  last.op = "list" => last.res.names = {t[1] : t \in DOMAIN uploaded}

\* C21: an upload to a (fileName, directory) that is uploaded already
\* replaces it: the upload succeeds, a download of the same (fileName,
\* directory) that follows resolves to the buffer of the second upload, and
\* every object stored under another key is unchanged.
C21_SecondUploadReplaces ==
  [][(/\ last'.op = "upload"
      /\ <<last'.fileName, last'.ctx.directory>> \in DOMAIN uploaded)
       => /\ last'.res.outcome = "ok"
          /\ download(cfg, objects', last'.fileName, last'.ctx).res.outcome = "ok"
          /\ download(cfg, objects', last'.fileName, last'.ctx).res.file = last'.file
          /\ \A k \in DOMAIN objects \ {last'.res.key} :
               k \in DOMAIN objects' /\ objects'[k] = objects[k]]_vars

(***************************************************************************)
(* Calls on file names and directories that point outside the root         *)
(***************************************************************************)

\* A plain name, and a name with a '..' segment.
TraversalFileNames == {<<"a.png">>, <<"..", SL, "a.png">>}

\* No directory, a directory with '..' segments, and an absolute one.
TraversalDirectories == {<<>>, <<"..", SL, "other">>, <<SL, "etc">>}

\* As InitInput, the inputs drawn from the names above.
InitTraversal ==
  /\ cfg \in StoreConfigs
  /\ objects = EmptyStore
  /\ last = NoCall
  /\ uploaded = [t \in {} |-> NotUploaded]
  /\ input \in [file : Buffers, fileName : TraversalFileNames,
                ctx : [directory : TraversalDirectories, expiresIn : {0}]]
  /\ driver = NewStorageDriver
  /\ regLast = NoRegCall
  /\ hist = NoHist
  /\ options = NoOptions
  /\ drv = NoDriver
  /\ drvLast = NoDriverCall
  /\ listing = NoListing

NextTraversal ==
  \/ UploadInput
  \/ DownloadInput
  \/ DeleteInput
  \/ ListInput
  \/ GetUrlInput

SpecTraversal == InitTraversal /\ [][NextTraversal]_vars

\* C22: the object key (for the local adapter the file path) that upload,
\* download, delete, list or getUrl acts on lies under the configured prefix
\* (the base directory), whatever fileName and directory are, '..' segments
\* and leading separators included.
C22_KeysUnderRoot ==
  LET root == IF cfg.adapter = "local" THEN cfg.basePath ELSE cfg.prefix
  IN (/\ last.op \in {"upload", "download", "delete", "list", "getUrl"}
      /\ ~(cfg.adapter = "local" /\ last.op = "getUrl"))
       => \/ root = <<>>
          \/ last.res.key = root
          \/ StartsWith(last.res.key, root \o <<SL>>)

\* C23: a signed URL made for a call that gave no expiry is signed for 300
\* seconds, and one made for a call that gave expiresIn is signed for
\* expiresIn seconds.
C23_SignedUrlExpiry ==
  (last.op \in {"getUrl", "getSignedUrl"} /\ last.answer = "" /\ last.res.signed)
    => last.res.expires = IF last.ctx.expiresIn = 0 THEN 300 ELSE last.ctx.expiresIn

DriverOps == {"upload", "download", "delete", "list", "getUrl"}

DriverCall(op, name, answer, res) ==
  [op |-> op, name |-> name, engine |-> drv.engine, answer |-> answer, res |-> res]

\* A Driver right after new Driver(config, storage) returned.
InitDriver ==
  /\ cfg \in LocalConfigs
  /\ objects = EmptyStore
  /\ last = NoCall
  /\ uploaded = [t \in {} |-> NotUploaded]
  /\ input = NoInput
  /\ driver = NewStorageDriver
  /\ regLast = NoRegCall
  /\ hist = NoHist
  /\ options = NoOptions
  /\ listing = NoListing
  /\ \E storage \in StorageArgs, defaultProvider \in ConfigDefaultProviders :
        \E r \in {DriverConstructor([defaultProvider |-> defaultProvider], storage)} :
           /\ drv = r.driver
           /\ drvLast = [NoDriverCall EXCEPT !.op = "constructor", !.name = storage,
                                             !.res.outcome = r.outcome,
                                             !.res.error = r.error]

RegisterCustomProviderCall ==
  \E name \in CustomNames, provider \in CustomProviders :
     /\ drv' = RegisterCustomProvider(drv, name, provider)
     /\ drvLast' = DriverCall("registerCustomProvider", name, "", NoDriverRes)
     /\ UNCHANGED <<cfg, objects, last, uploaded, input, driver, regLast, options, hist,
                    listing>>

\* The engine load the constructor started comes back with the instance.
EngineResolves ==
  /\ drv.initEngine = "pending"
  /\ drv' = EngineResolved(drv)
  /\ UNCHANGED <<cfg, objects, last, uploaded, input, driver, regLast, options, hist,
                 drvLast, listing>>

\* The load of a built-in adapter fails: its module does not load, or its
\* constructor throws on the config.
EngineRejects ==
  /\ drv.initEngine = "pending"
  /\ drv.factory \in {BuiltinEngines[n] : n \in DOMAIN BuiltinEngines}
  /\ drv' = EngineRejected(drv, "LoadError")
  /\ UNCHANGED <<cfg, objects, last, uploaded, input, driver, regLast, options, hist,
                 drvLast, listing>>

DriverUploadCall ==
  \E readFile \in ReadFileAnswers :
     /\ drvLast' = DriverCall("upload", "", readFile, DriverUpload(drv, readFile))
     /\ UNCHANGED <<cfg, objects, last, uploaded, input, driver, regLast, options, hist,
                    drv, listing>>

DriverDownloadCall ==
  /\ drvLast' = DriverCall("download", "", "", DriverDownload(drv))
  /\ UNCHANGED <<cfg, objects, last, uploaded, input, driver, regLast, options, hist,
                 drv, listing>>

DriverDeleteCall ==
  /\ drvLast' = DriverCall("delete", "", "", DriverDelete(drv))
  /\ UNCHANGED <<cfg, objects, last, uploaded, input, driver, regLast, options, hist,
                 drv, listing>>

DriverListCall ==
  /\ drvLast' = DriverCall("list", "", "", DriverList(drv))
  /\ UNCHANGED <<cfg, objects, last, uploaded, input, driver, regLast, options, hist,
                 drv, listing>>

DriverGetUrlCall ==
  /\ drvLast' = DriverCall("getUrl", "", "", DriverGetUrl(drv))
  /\ UNCHANGED <<cfg, objects, last, uploaded, input, driver, regLast, options, hist,
                 drv, listing>>

NextDriver ==
  \/ RegisterCustomProviderCall
  \/ EngineResolves
  \/ EngineRejects
  \/ DriverUploadCall
  \/ DriverDownloadCall
  \/ DriverDeleteCall
  \/ DriverListCall
  \/ DriverGetUrlCall

SpecDriver == InitDriver /\ [][NextDriver]_vars

\* The promise of the engine load settles: it resolves or it rejects.
SpecDriverFair == SpecDriver /\ WF_vars(EngineResolves \/ EngineRejects)

\* C25: a Driver call made while the engine is not set rejects with
\* 'Storage engine not initialized.' and calls no provider; a call made once
\* the engine is set is delegated to the engine, the one engine the Driver
\* has from then on.
C25_EngineGate ==
  drvLast.op \in DriverOps
    => IF drvLast.engine = ""
         THEN drvLast.res = NotInitialized
       ELSE drvLast.res.delegated = drvLast.engine /\ drv.engine = drvLast.engine

\* C25 with the read of the file in upload: as C25_EngineGate, except that
\* an upload made once the engine is set is delegated after the file at
\* filePath was read, and rejects with the read error, calling no provider,
\* when the read fails.
C25_EngineGateAfterRead ==
  drvLast.op \in DriverOps
    => IF drvLast.engine = ""
         THEN drvLast.res = NotInitialized
       ELSE /\ drv.engine = drvLast.engine
            /\ IF drvLast.op = "upload" /\ drvLast.answer # "ok"
                 THEN /\ drvLast.res.outcome = "rejected"
                      /\ drvLast.res.error = drvLast.answer
                      /\ drvLast.res.delegated = ""
               ELSE drvLast.res.delegated = drvLast.engine

\* A call right after the constructor was rejected; the load finished and
\* the next call went to the engine.
C25_Witness ==
  /\ drvLast.op \in DriverOps
  /\ drvLast.engine # ""
  /\ drvLast.res.delegated = drv.engine

\* C26: when the storage name has no entry in the engine map, the
\* constructor throws 'Storage provider "<name>" not found.' to its caller,
\* and the Driver never has an engine.
C26_UnknownStorageThrows ==
  (drv.initEngine = "rejected" /\ drv.rejection = StorageProviderNotFound)
    => /\ drvLast.op = "constructor"
       /\ drvLast.res.outcome = "rejected"
       /\ drvLast.res.error = StorageProviderNotFound
       /\ drv.engine = ""

\* C27: a custom provider can become the engine: when P is registered under
\* the storage name the Driver was constructed for while the engine load is
\* under way, the engine becomes an instance of P, to which the calls are
\* delegated, unless the load fails.
C27_CustomProviderBecomesEngine ==
  (/\ drv.initEngine = "pending"
   /\ drv.storageEngineMap[drv.storage] \in CustomProviders)
    ~> (drv.engine \in CustomProviders \/ drv.rejection = "LoadError")

\* C28: for one configuration and one (fileName, context), getUrl without
\* an expiry returns the url of the upload result: both address the key the
\* object was written under.
C28_GetUrlIsUploadUrl ==
  (last.op = "getUrl" /\ last.answer = "" /\ last.ctx.expiresIn = 0)
    => last.res.url = upload(cfg, objects, input.file, last.fileName, last.ctx).res.url

(***************************************************************************)
(* S3Provider called with contexts that hold native request fields         *)
(***************************************************************************)

ContextFileName == <<"a.txt">>

\* A context without native fields, and the contexts that differ from it in
\* one native field.
NativeContexts ==
  LET plain == [directory |-> <<>>, expiresIn |-> 0]
  IN {plain}
       \cup {[directory |-> <<>>, expiresIn |-> 0, Key |-> <<"k.bin">>]}
       \cup {[directory |-> <<>>, expiresIn |-> 0, Bucket |-> OtherBucket]}
       \cup {[directory |-> <<>>, expiresIn |-> 0, Body |-> b] : b \in Buffers}
       \cup {[directory |-> <<>>, expiresIn |-> 0, ContentType |-> "application/json"]}

InitContext ==
  /\ cfg \in {c \in StoreConfigs : c.adapter = "s3"}
  /\ objects = EmptyStore
  /\ last = NoCall
  /\ uploaded = [t \in {} |-> NotUploaded]
  /\ input = NoInput
  /\ driver = NewStorageDriver
  /\ regLast = NoRegCall
  /\ hist = NoHist
  /\ options = NoOptions
  /\ drv = NoDriver
  /\ drvLast = NoDriverCall
  /\ listing = NoListing

UploadContext ==
  \E file \in Buffers, ctx \in NativeContexts : UploadCall(file, ContextFileName, ctx)

DownloadContext == \E ctx \in NativeContexts : DownloadCall(ContextFileName, ctx)

DeleteContext ==
  \E ctx \in NativeContexts, answer \in DeleteMissingAnswers :
     DeleteCall(ContextFileName, ctx, answer)

ListContext == \E ctx \in NativeContexts : ListCall(ctx)

NextContext ==
  \/ UploadContext
  \/ DownloadContext
  \/ DeleteContext
  \/ ListContext

SpecContext == InitContext /\ [][NextContext]_vars

\* C29: in S3Provider a context field named as a native request field
\* (Bucket, Key, Body, ContentType) replaces the derived value in the request
\* of upload, download, delete and list, and the call acts on the bucket and
\* the key of that request.
C29_ContextOverridesRequest ==
  (cfg.adapter = "s3" /\ last.op \in {"upload", "download", "delete", "list"})
    => LET request == last.res.request
           bucket == BucketObjects(objects, request.Bucket)
       IN /\ \A f \in DOMAIN last.ctx \cap NativeFields :
               f \in DOMAIN request /\ request[f] = last.ctx[f]
          /\ last.op = "upload" => bucket[request.Key] = request.Body
          /\ (last.op = "download" /\ last.res.outcome = "ok")
               => last.res.file = bucket[request.Key]
          /\ (last.op = "download" /\ last.res.outcome # "ok")
               => request.Key \notin DOMAIN bucket
          /\ (last.op = "delete" /\ last.res.outcome = "ok")
               => request.Key \notin DOMAIN bucket
          /\ last.op = "list" => last.res.names = DOMAIN bucket

\* A download of 'a.txt' whose context names another key resolves to the
\* object under that key.
C29_Witness ==
  /\ cfg.adapter = "s3"
  /\ last.op = "download"
  /\ "Key" \in DOMAIN last.ctx
  /\ last.res.outcome = "ok"
  /\ last.res.request.Key = last.ctx.Key
  /\ last.res.request.Key # last.fileName

(***************************************************************************)
(* LocalStorageProvider.list step by step, next to other calls             *)
(***************************************************************************)

InitListRace ==
  /\ cfg \in LocalConfigs
  /\ objects = EmptyStore
  /\ last = NoCall
  /\ uploaded = [t \in {} |-> NotUploaded]
  /\ input = NoInput
  /\ driver = NewStorageDriver
  /\ regLast = NoRegCall
  /\ hist = NoHist
  /\ options = NoOptions
  /\ drv = NoDriver
  /\ drvLast = NoDriverCall
  /\ listing = NoListing

\* An upload, made while no list is between its readdir and its last stat.
UploadRace ==
  /\ listing.phase # "stat"
  /\ Upload

\* A delete, at any time.
DeleteRace == Delete /\ UNCHANGED listing

\* list(ctx) up to the answer of readdirAsync(dirPath): the names of the
\* entries.  Every statAsync is started now and answers later.
ListReaddir ==
  /\ listing.phase # "stat"
  /\ \E ctx \in Contexts :
        LET dirPath == PathJoin(<<cfg.basePath, ctx.directory>>)
        IN listing' = [phase |-> "stat", ctx |-> ctx, dirPath |-> dirPath,
                       files |-> {g.name : g \in LocalReadDir(objects, dirPath)},
                       fileStats |-> {}]
  /\ UNCHANGED <<cfg, objects, last, uploaded, input, driver, regLast, options, hist,
                 drv, drvLast>>

\* statAsync(filePath) of one entry answers.  For an entry that is gone it
\* throws ENOENT: Promise.all rejects and the catch of list returns [].
ListStat ==
  /\ listing.phase = "stat"
  /\ \E file \in listing.files \ {g.name : g \in listing.fileStats} :
        LET stat == {g \in LocalReadDir(objects, listing.dirPath) : g.name = file}
        IN IF stat # {}
             THEN /\ listing' = [listing EXCEPT !.fileStats = listing.fileStats \cup stat]
                  /\ UNCHANGED last
           ELSE /\ listing' = [listing EXCEPT !.phase = "done"]
                /\ last' = Call("list", 0, <<>>, listing.ctx,
                                [BaseRes EXCEPT !.key = listing.dirPath, !.names = {}])
  /\ UNCHANGED <<cfg, objects, uploaded, input, driver, regLast, options, hist, drv, drvLast>>

\* Every stat has answered: list returns the names that are not directories.
ListReturn ==
  /\ listing.phase = "stat"
  /\ listing.files = {g.name : g \in listing.fileStats}
  /\ listing' = [listing EXCEPT !.phase = "done"]
  /\ last' = Call("list", 0, <<>>, listing.ctx,
                  [BaseRes EXCEPT !.key = listing.dirPath,
                     !.names = {f.name : f \in {g \in listing.fileStats : ~g.isDirectory}}])
  /\ UNCHANGED <<cfg, objects, uploaded, input, driver, regLast, options, hist, drv, drvLast>>

NextListRace ==
  \/ UploadRace
  \/ DeleteRace
  \/ ListReaddir
  \/ ListStat
  \/ ListReturn

SpecListRace == InitListRace /\ [][NextListRace]_vars

\* C30: a list that ran next to deletes does not fail and returns every
\* file of the directory that was there from its readdir to its return.
C30_ListKeepsRemainingFiles ==
  (last.op = "list" /\ listing.phase = "done")
    => /\ last.res.outcome = "ok"
       /\ \A g \in LocalReadDir(objects, listing.dirPath) :
            (g.name \in listing.files /\ ~g.isDirectory) => g.name \in last.res.names

====
